---- MODULE Spec2Model ----
(***************************************************************************)
(* A model of SimSWARM/Signal/signal.py: the analog signal classes         *)
(* (AnalogSignal, TransformedAnalogSignal, CompoundAnalogSignal) and the   *)
(* seed-windowed GaussianNoiseGenerator.                                   *)
(*                                                                         *)
(* Conventions.                                                            *)
(*  - Python objects live in heaps (generators, signals): an object is its *)
(*    index, so two references to one object alias.                        *)
(*  - Python None is the empty sequence <<>>, a number v that may be None  *)
(*    is <<v>>.                                                            *)
(*  - Times are exact rationals <<numerator, denominator>> (denominator    *)
(*    > 0); the rounding of numpy's float64 arithmetic is not modelled.    *)
(*  - A value drawn from numpy.random.RandomState(seed) is the pair        *)
(*    [seed, pos]: draw number pos (from 0) of the stream of that seed.    *)
(*  - TLC's integers are 32 bits wide, so the two powers of two of the     *)
(*    source are scaled: 2^32 is 2^SeedBits and 2^20 is 2^WindowBits.      *)
(***************************************************************************)
EXTENDS Integers, Sequences, FiniteSets, Bags, TLC

VARIABLES
    seed_list,    \* GaussianNoiseGenerator._seed_list, shared by all instances
    generators,   \* heap of GaussianNoiseGenerator instances
    signals,      \* heap of AnalogSignal instances (all three classes)
    op,           \* the last call: [name, self, args]
    ret,          \* what the last call returned
    err,          \* the exception the last call raised, "" when it returned
    probe,        \* one earlier generate call and its result, <<>> when none is kept
    pc,           \* per thread: where it is in GaussianNoiseGenerator.__init__
    this_seed,    \* per thread: the local this_seed of __init__
    seeds,        \* the seeds computed by the last pair of _seed_window_to_random_state calls
    draws,        \* the results of the last three _draw_samples calls
    mutations     \* how many transform mutator calls were made

vars == <<seed_list, generators, signals, op, ret, err, probe, pc, this_seed, seeds, draws,
          mutations>>

\* ---------------------------------------------------------------- bounds

\* 2^SeedBits stands for the source's 2^32.
SeedBits == 3
\* 2^WindowBits stands for the source's 2^20.
WindowBits == 1
\* GaussianNoiseGenerator instances constructed in one run.
MaxGenerators == 2
\* Largest sample count n of a generate call.
MaxCount == 2
\* Threads constructing generators concurrently.
MaxThreads == 2
\* Sample indices of the _draw_samples calls lie in -MaxIndex..MaxIndex.
MaxIndex == 5
\* AnalogSignal instances (of all three classes) alive in one run.
MaxSignals == 4
\* Longest list given to CompoundAnalogSignal.
MaxList == 2
\* Transform mutator calls in one run.
MaxMutations == 2

\* ---------------------------------------------------------------- helpers

RECURSIVE Pow2(_)
Pow2(e) == IF e <= 0 THEN 1 ELSE 2 * Pow2(e - 1)

Abs(x) == IF x < 0 THEN -x ELSE x

None == <<>>

\* Exact rationals <<a, b>> with b > 0.
RatLeq(p, q) == p[1] * q[2] <= q[1] * p[2]
RatSub(p, q) == <<p[1] * q[2] - q[1] * p[2], p[2] * q[2]>>
RatTimesInt(p, k) == <<p[1] * k, p[2]>>
RatFloor(p) == p[1] \div p[2]
RatCeil(p) == -((-p[1]) \div p[2])

\* np.min / np.max of a non-empty vector of rationals.
np_min(v) == CHOOSE x \in {v[i] : i \in DOMAIN v} : \A i \in DOMAIN v : RatLeq(x, v[i])
np_max(v) == CHOOSE x \in {v[i] : i \in DOMAIN v} : \A i \in DOMAIN v : RatLeq(v[i], x)

\* int(np.ceil(np.log2(k))) for k >= 1.
RECURSIVE CeilLog2From(_, _)
CeilLog2From(k, e) == IF Pow2(e) >= k THEN e ELSE CeilLog2From(k, e + 1)
CeilLog2(k) == CeilLog2From(k, 0)

\* ------------------------------------------------- GaussianNoiseGenerator

samples_per_seed == Pow2(WindowBits)

seed_increment_per_generator == Pow2(SeedBits) - 1

\* Mutant: the first entry of the list is read, not the last.
first_allocated_seed(list) == list[1]
\* self._seed_list[-1]
last_allocated_seed(list) == list[Len(list)]

\* The property base_seed: the dictionary {'pos': ..., 'neg': ...}.
base_seed(self) ==
    [pos |-> generators[self].base_seed, neg |-> generators[self].base_seed + 1]

\* numpy.random.RandomState(seed): a stream of its own, at draw 0.
RandomState(seed) == [seed |-> seed, pos |-> 0]

\* rs.randn(k): the k values drawn, and the stream after them.
randn(rs, k) == [j \in 1..k |-> [seed |-> rs.seed, pos |-> rs.pos + j - 1]]
\* Mutant: the garbage samples are not drawn, the stream stays where it was.
after_randn_not_drawn(rs, k) == rs
after_randn(rs, k) == [rs EXCEPT !.pos = @ + k]

\* Mutant: the seed is taken from the shared list's last entry, not from the
\* instance's own base seed.
seed_of_window_shared(self, window) ==
    LET last == seed_list[Len(seed_list)]
        base == IF window < 0 THEN (last + 1) - 2 ELSE last
    IN  base + 2 * Abs(window)

\* Mutant: the negative side lacks the -2 that makes window -1 its first.
seed_of_window_uncorrected(self, window) ==
    LET base == IF window < 0 THEN base_seed(self).neg ELSE base_seed(self).pos
    IN  base + 2 * Abs(window)

\* The seed _seed_window_to_random_state gives numpy.random.RandomState.
seed_of_window(self, window) ==
    LET base == IF window < 0 THEN base_seed(self).neg - 2 ELSE base_seed(self).pos
    IN  base + 2 * Abs(window)

seed_window_to_random_state(self, window) == RandomState(seed_of_window(self, window))

\* The loop over the windows strictly between the first and the last.
RECURSIVE between_windows(_, _, _)
between_windows(self, iwindow, seed_window_end) ==
    IF iwindow >= seed_window_end THEN <<>>
    ELSE randn(seed_window_to_random_state(self, iwindow), samples_per_seed)
         \o between_windows(self, iwindow + 1, seed_window_end)

draw_samples(self, sample_ends) ==
    LET seed_window_start == sample_ends[1] \div samples_per_seed
        seed_window_end == sample_ends[2] \div samples_per_seed
        rs == seed_window_to_random_state(self, seed_window_start)
        number_of_garbage_samples ==
            Abs(sample_ends[1] - seed_window_start * samples_per_seed)
        rs1 == after_randn(rs, number_of_garbage_samples)
    IN  IF seed_window_start = seed_window_end
        THEN randn(rs1, sample_ends[2] - sample_ends[1] + 1)
        ELSE LET part1 == randn(rs1, Abs((seed_window_start + 1) * samples_per_seed
                                         - sample_ends[1]))
                          \o between_windows(self, seed_window_start + 1, seed_window_end)
                 rs2 == seed_window_to_random_state(self, seed_window_end)
                 part2 == randn(rs2, Abs(sample_ends[2] - seed_window_end * samples_per_seed)
                                     + 1)
             IN  part1 \o part2

\* Generator.get_time_vector: np.arange(0, n/r, 1/r) + t, as exact rationals.
get_time_vector(r, n, t) == [i \in 1..n |-> <<t[1] * r + (i - 1) * t[2], t[2] * r>>]

\* A sample that is a plain draw, and sample number "at" (from 0) of the
\* inverse transform of the drawn vector zero-padded to nfft points and
\* multiplied by the phase ramp of delta_t.
plain_sample(d) == [src |-> <<d>>, nfft |-> 0, delta_t |-> <<0, 1>>, at |-> 0]
shifted_sample(drawn, nfft, delta_t, at) ==
    [src |-> drawn, nfft |-> nfft, delta_t |-> delta_t, at |-> at]

\* samples_all *= sqrt(variance); samples_all += mean
adjust_statistics(self, v) ==
    [i \in DOMAIN v |-> [value |-> v[i], variance |-> generators[self].variance,
                         mean |-> generators[self].mean]]

\* Mutant: the slice runs to the end of the vector.
Slice_to_end(x, a, b) == SubSeq(x, a + 1, Len(x))
\* Python's x[a:b] on a sequence (a from 0, b excluded, cut at the end).
Slice(x, a, b) == SubSeq(x, a + 1, IF b < Len(x) THEN b ELSE Len(x))

\* GaussianNoiseGenerator.generate: [err, value].
generate(self, r, n, t) ==
    LET tvec == get_time_vector(r, n, t)
        s_min == RatFloor(RatTimesInt(np_min(tvec), r))
        s_max == RatCeil(RatTimesInt(np_max(tvec), r))
        samples_all == draw_samples(self, <<s_min, s_max>>)
    IN  IF Len(samples_all) > Len(tvec)
        THEN LET next_power_of_two == CeilLog2(Len(samples_all))
                 delta_t == RatSub(tvec[1], <<s_min, r>>)
                 shifted == [i \in 1..Len(samples_all) |->
                               shifted_sample(samples_all, Pow2(next_power_of_two),
                                              delta_t, i - 1)]
                 \* np.argwhere(tvec[0] - np.arange(s_min,s_max)/r >= 0.0)
                 hits == {i \in 0..(s_max - s_min - 1) :
                            RatLeq(<<0, 1>>, RatSub(tvec[1], <<s_min + i, r>>))}
             IN  IF hits = {}
                 THEN [err |-> "IndexError", value |-> <<>>]
                 ELSE LET idx_start == CHOOSE i \in hits : \A j \in hits : i <= j
                      IN  [err |-> "",
                           value |-> adjust_statistics(self,
                                        Slice(shifted, idx_start, idx_start + Len(tvec)))]
        ELSE [err |-> "",
              value |-> adjust_statistics(self, [i \in DOMAIN samples_all |->
                                                    plain_sample(samples_all[i])])]

\* ------------------------------------------------------- analog signals

\* The instance attributes the constructors set.
AnalogAttrs == {"_generator"}
TransformAttrs == {"_time_delay", "_flat_gain", "_frequency_magnitude_slope",
                   "_frequency_phase_slope"}

\* An instance with no attribute set yet; attrs names the attributes that
\* exist, and the field of an attribute that does not exist is never read.
NewObject(cls) ==
    [cls |-> cls, attrs |-> {}, generator |-> 0, time_delay |-> 0, flat_gain |-> 0,
     frequency_magnitude_slope |-> None, frequency_phase_slope |-> None,
     components |-> <<>>]

\* Python values given as arguments: a reference to a signal, or a value of
\* another type.
SignalRef(i) == [type |-> "signal", ref |-> i]
Other(type) == [type |-> type, ref |-> 0]

Subclasses(cls) ==
    CASE cls = "AnalogSignal" ->
           {"AnalogSignal", "TransformedAnalogSignal", "CompoundAnalogSignal"}
      [] cls = "TransformedAnalogSignal" ->
           {"TransformedAnalogSignal", "CompoundAnalogSignal"}
      [] OTHER -> {cls}

isinstance(v, cls) == v.type = "signal" /\ signals[v.ref].cls \in Subclasses(cls)

Return(obj) == [err |-> "", obj |-> obj]
Raise(e) == [err |-> e, obj |-> NewObject("")]

\* AnalogSignal.__init__(self, gen)
AnalogSignal_init(self, gen) ==
    [self EXCEPT !.attrs = @ \cup AnalogAttrs, !.generator = gen]

\* The branch of TransformedAnalogSignal.__init__ for a plain AnalogSignal.
reset_transform(self) ==
    [self EXCEPT !.attrs = @ \cup TransformAttrs,
                 !.time_delay = 0,
                 !.flat_gain = 1,
                 !.frequency_magnitude_slope = None,
                 !.frequency_phase_slope = None]

\* Mutant: the transform state of the source is not taken over.
copy_transform_identity(self, src) == reset_transform(self)

\* The branch of TransformedAnalogSignal.__init__ for a TransformedAnalogSignal.
copy_transform(self, src) ==
    [self EXCEPT !.attrs = @ \cup TransformAttrs,
                 !.time_delay = src.time_delay,
                 !.flat_gain = src.flat_gain,
                 !.frequency_magnitude_slope = src.frequency_magnitude_slope,
                 !.frequency_phase_slope = src.frequency_phase_slope]

\* TransformedAnalogSignal.__init__(self, analog_signal): the new instance, or
\* the exception raised. Reading a property of analog_signal whose attribute
\* does not exist raises AttributeError.
TransformedAnalogSignal_init(analog_signal) ==
    IF ~isinstance(analog_signal, "AnalogSignal")
    THEN Raise("ValueError")
    ELSE LET src == signals[analog_signal.ref]
             self == NewObject("TransformedAnalogSignal")
         IN  IF isinstance(analog_signal, "TransformedAnalogSignal")
             THEN IF ~(TransformAttrs \subseteq src.attrs) \/ ~(AnalogAttrs \subseteq src.attrs)
                  THEN Raise("AttributeError")
                  ELSE Return(AnalogSignal_init(copy_transform(self, src), src.generator))
             ELSE IF ~(AnalogAttrs \subseteq src.attrs)
                  THEN Raise("AttributeError")
                  ELSE Return(AnalogSignal_init(reset_transform(self), src.generator))

\* self._components.append(TransformedAnalogSignal(t)) for each t of a list,
\* up to the first exception.
RECURSIVE append_wrapped(_)
append_wrapped(vals) ==
    IF vals = <<>> THEN [err |-> "", objs |-> <<>>]
    ELSE LET first == TransformedAnalogSignal_init(Head(vals))
             rest == append_wrapped(Tail(vals))
         IN  IF first.err # "" THEN [err |-> first.err, objs |-> <<>>]
             ELSE IF rest.err # "" THEN rest
             ELSE [err |-> "", objs |-> <<first.obj>> \o rest.objs]

\* Mutant: a compound element is appended like any other signal, not flattened.
RECURSIVE compound_components_nested(_)
compound_components_nested(sigs) ==
    IF sigs = <<>> THEN [err |-> "", objs |-> <<>>]
    ELSE LET these == append_wrapped(<<Head(sigs)>>)
             rest == compound_components_nested(Tail(sigs))
         IN  IF these.err # "" THEN these
             ELSE IF rest.err # "" THEN rest
             ELSE [err |-> "", objs |-> these.objs \o rest.objs]

\* The loop of CompoundAnalogSignal.__init__ over signals: the components
\* appended, or the first exception.
RECURSIVE compound_components(_)
compound_components(sigs) ==
    IF sigs = <<>> THEN [err |-> "", objs |-> <<>>]
    ELSE LET s == Head(sigs)
             these == IF isinstance(s, "CompoundAnalogSignal")
                      THEN append_wrapped([i \in DOMAIN signals[s.ref].components |->
                                              SignalRef(signals[s.ref].components[i])])
                      ELSE append_wrapped(<<s>>)
             rest == compound_components(Tail(sigs))
         IN  IF these.err # "" THEN these
             ELSE IF rest.err # "" THEN rest
             ELSE [err |-> "", objs |-> these.objs \o rest.objs]

\* The signals a list of CompoundAnalogSignal arguments stands for, each
\* compound replaced by its components.
RECURSIVE Flattened(_)
Flattened(sigs) ==
    IF sigs = <<>> THEN <<>>
    ELSE (IF signals[Head(sigs).ref].cls = "CompoundAnalogSignal"
          THEN signals[Head(sigs).ref].components
          ELSE <<Head(sigs).ref>>) \o Flattened(Tail(sigs))

\* Mutant: a TransformedAnalogSignal of the list is kept as the component
\* itself, not copied.
component_refs_aliased(self, sigs, objs) ==
    [i \in DOMAIN objs |->
        IF signals[Flattened(sigs)[i]].cls = "TransformedAnalogSignal"
        THEN Flattened(sigs)[i]
        ELSE self + i]

\* self._components after the loop: every component is the instance that
\* TransformedAnalogSignal(...) constructed for it, allocated after self.
component_refs(self, sigs, objs) == [i \in DOMAIN objs |-> self + i]

\* The four mutators of TransformedAnalogSignal on instance self: the
\* instance after the call, or the exception (a number and None do not add
\* or multiply: TypeError).
\* Mutant: the delay replaces the delay applied so far.
apply_delay_replacing(self, d) ==
    IF d = None THEN Raise("TypeError")
    ELSE Return([self EXCEPT !.time_delay = d[1]])

apply_delay(self, d) ==
    IF d = None THEN Raise("TypeError")
    ELSE Return([self EXCEPT !.time_delay = @ + d[1]])

apply_gain(self, g) ==
    IF g = None THEN Raise("TypeError")
    ELSE Return([self EXCEPT !.flat_gain = @ * g[1]])

apply_frequency_magnitude_slope(self, m) ==
    IF self.frequency_magnitude_slope = None
    THEN Return([self EXCEPT !.frequency_magnitude_slope = m])
    ELSE IF m = None THEN Raise("TypeError")
    ELSE Return([self EXCEPT !.frequency_magnitude_slope = <<@[1] + m[1]>>])

\* Mutant: phase slopes add up, as magnitude slopes do.
apply_frequency_phase_slope_additive(self, p) ==
    IF self.frequency_phase_slope = None
    THEN Return([self EXCEPT !.frequency_phase_slope = p])
    ELSE IF p = None THEN Raise("TypeError")
    ELSE Return([self EXCEPT !.frequency_phase_slope = <<@[1] + p[1]>>])

apply_frequency_phase_slope(self, p) ==
    IF self.frequency_phase_slope = None
    THEN Return([self EXCEPT !.frequency_phase_slope = p])
    ELSE IF p = None THEN Raise("TypeError")
    ELSE Return([self EXCEPT !.frequency_phase_slope = <<@[1] * p[1]>>])

apply(name, self, x) ==
    CASE name = "apply_delay" -> apply_delay(self, x)
      [] name = "apply_gain" -> apply_gain(self, x)
      [] name = "apply_frequency_magnitude_slope" -> apply_frequency_magnitude_slope(self, x)
      [] name = "apply_frequency_phase_slope" -> apply_frequency_phase_slope(self, x)

\* The loop "for c in self.components: c.<name>(x)" of the CompoundAnalogSignal
\* mutators: the heap after it, with the exception that ended it, if any.
RECURSIVE broadcast(_, _, _, _)
broadcast(heap, components, name, x) ==
    IF components = <<>> THEN [err |-> "", heap |-> heap]
    ELSE LET c == Head(components)
             res == apply(name, heap[c], x)
         IN  IF res.err # "" THEN [err |-> res.err, heap |-> heap]
             ELSE broadcast([heap EXCEPT ![c] = res.obj], Tail(components), name, x)

\* Method <name> called on signals[self]: CompoundAnalogSignal overrides the
\* four mutators of TransformedAnalogSignal.
call_mutator(self, name, x) ==
    IF signals[self].cls = "CompoundAnalogSignal"
    THEN broadcast(signals, signals[self].components, name, x)
    ELSE LET res == apply(name, signals[self], x)
         IN  [err |-> res.err,
              heap |-> IF res.err = "" THEN [signals EXCEPT ![self] = res.obj] ELSE signals]

\* ---------------------------------------------------------------- sampling

RECURSIVE GCD(_, _)
GCD(a, b) == IF b = 0 THEN Abs(a) ELSE GCD(b, a % b)

\* A rational in lowest terms, and a rational plus an integer.
RatNorm(p) == <<p[1] \div GCD(p[1], p[2]), p[2] \div GCD(p[1], p[2])>>
RatPlusInt(p, k) == <<p[1] + k * p[2], p[2]>>

\* The instances ConstantGenerator(amplitude) and
\* SinusoidGenerator(amplitude, frequency, phase) after construction.
ConstantGenerator(amplitude) == [amplitude |-> amplitude]
SinusoidGenerator(amplitude, frequency, phase) ==
    [amplitude |-> amplitude, frequency |-> frequency, phase |-> phase]

\* A sample is a sum of multiples of quantities that are not computed
\* further: the number 1, a sine value, a noise sample, a sample that went
\* through the frequency domain. It is the bag of these quantities, each as
\* many times as its multiple; the amplitudes and gains drawn are positive.
Unit == [unit |-> 1]
Plus(x, y) == x (+) y
Times(g, x) == IF g = 0 THEN EmptyBag ELSE [q \in DOMAIN x |-> g * x[q]]

np_zeros(n) == [i \in 1..n |-> EmptyBag]
np_ones(n) == [i \in 1..n |-> Unit :> 1]
\* g * v and v + w on vectors.
Scaled(g, v) == [i \in DOMAIN v |-> Times(g, v[i])]
Added(v, w) == [i \in DOMAIN v |-> Plus(v[i], w[i])]

\* The result of GaussianNoiseGenerator.generate as sample values.
noise_samples(res) ==
    [err |-> res.err,
     value |-> [i \in DOMAIN res.value |-> [noise |-> res.value[i]] :> 1]]

\* self.generator.generate(r, n, t), by the class of the generator: [err, value].
generator_generate(gen, r, n, t) ==
    LET g == generators[gen]
    IN  IF "base_seed" \in DOMAIN g
        THEN noise_samples(generate(gen, r, n, t))
        ELSE IF "frequency" \in DOMAIN g
        THEN LET tvec == get_time_vector(r, n, t)
             IN  [err |-> "",
                  value |-> [i \in 1..n |->
                               Times(g.amplitude,
                                     [sin |-> <<g.frequency, g.phase, RatNorm(tvec[i])>>] :> 1)]]
        ELSE [err |-> "", value |-> Scaled(g.amplitude, np_ones(n))]

\* AnalogSignal.sample
AnalogSignal_sample(self, r, n, t) ==
    IF ~(AnalogAttrs \subseteq signals[self].attrs)
    THEN [err |-> "AttributeError", value |-> <<>>]
    ELSE generator_generate(signals[self].generator, r, n, t)

\* Sample number "at" (from 0) of the inverse transform of the transform of
\* td_samples multiplied by the magnitude and phase factors of the slopes.
fd_sample(td_samples, r, magnitude_slope, phase_slope, at) ==
    [fd |-> td_samples, r |-> r, magnitude_slope |-> magnitude_slope,
     phase_slope |-> phase_slope, at |-> at] :> 1

\* Mutant: a slope of 0 is taken for no slope.
slopes_unset_or_zero(self) ==
    /\ self.frequency_magnitude_slope \in {None, <<0>>}
    /\ self.frequency_phase_slope \in {None, <<0>>}

\* (self.frequency_magnitude_slope == None) and (self.frequency_phase_slope == None)
slopes_unset(self) ==
    self.frequency_magnitude_slope = None /\ self.frequency_phase_slope = None

\* The rest of TransformedAnalogSignal.sample, after res came back from
\* self.generator.generate: the gain, then the slopes if one is set.
transform_samples(me, res, r, n) ==
    IF res.err # "" THEN res
    ELSE IF slopes_unset(me) THEN [err |-> "", value |-> Scaled(me.flat_gain, res.value)]
    ELSE [err |-> "",
          value |-> [i \in 1..n |->
                       fd_sample(Scaled(me.flat_gain, res.value), r,
                                 me.frequency_magnitude_slope,
                                 me.frequency_phase_slope, i - 1)]]

\* TransformedAnalogSignal.sample on the instance me.
sample_transformed(me, r, n, t) ==
    IF ~(TransformAttrs \subseteq me.attrs) \/ ~(AnalogAttrs \subseteq me.attrs)
    THEN [err |-> "AttributeError", value |-> <<>>]
    ELSE transform_samples(me, generator_generate(me.generator, r, n,
                                                  RatPlusInt(t, me.time_delay)), r, n)

\* TransformedAnalogSignal.sample
TransformedAnalogSignal_sample(self, r, n, t) == sample_transformed(signals[self], r, n, t)

\* Mutant: "result = c.sample(r,n,t)", the last component alone.
RECURSIVE accumulate_overwritten(_, _)
accumulate_overwritten(result, sampled) ==
    IF sampled = <<>> THEN result
    ELSE accumulate_overwritten(Head(sampled), Tail(sampled))

\* "result += c.sample(r,n,t)" over the sampled components, in their order.
RECURSIVE accumulate(_, _)
accumulate(result, sampled) ==
    IF sampled = <<>> THEN result
    ELSE accumulate(Added(result, Head(sampled)), Tail(sampled))

\* CompoundAnalogSignal.sample: the sum over the components, or the exception
\* of the first component whose sample raises one.
CompoundAnalogSignal_sample(self, r, n, t) ==
    LET components == signals[self].components
        sampled == [k \in DOMAIN components |->
                       TransformedAnalogSignal_sample(components[k], r, n, t)]
        raised == {k \in DOMAIN components : sampled[k].err # ""}
    IN  IF raised # {}
        THEN sampled[CHOOSE k \in raised : \A j \in raised : k <= j]
        ELSE [err |-> "",
              value |-> accumulate(np_zeros(n), [k \in DOMAIN components |-> sampled[k].value])]

\* signals[self].sample(r, n, t), by the class of the instance.
sample(self, r, n, t) ==
    CASE signals[self].cls = "CompoundAnalogSignal" -> CompoundAnalogSignal_sample(self, r, n, t)
      [] signals[self].cls = "TransformedAnalogSignal" ->
            TransformedAnalogSignal_sample(self, r, n, t)
      [] OTHER -> AnalogSignal_sample(self, r, n, t)

\* ---------------------------------------------------------------- inputs

\* (mean, variance) of a new GaussianNoiseGenerator.
GaussianParams == {<<1, 4>>}
\* Sample rates r.
Rates == {1, 2}
\* Time offsets t, in seconds.
TimeOffsets == {<<0, 1>>, <<-1, 1>>, <<1, 2>>, <<-3, 2>>}

\* Arguments of the mutators.
DelayArgs == {None, <<1>>}
GainArgs == {None, <<2>>}
MagnitudeSlopeArgs == {None, <<1>>}
PhaseSlopeArgs == {None, <<3>>}
\* Values that are no AnalogSignal.
NonSignals == {Other("Generator"), Other("DigitalSignal"), Other("float")}

NoOp == [name |-> "", self |-> 0, args |-> <<>>]

\* Amplitudes a and b of the two ConstantGenerators, and the time offsets and
\* mutator arguments of the sampled signals.
AmplitudeA == 2
AmplitudeB == 3
SampleTimes == {<<1, 2>>}
SampleGains == {<<2>>}
SampleDelays == {<<1>>}
SampleSlopes == {<<0>>}
\* The delays d1 and d2 applied one after the other.
DelayValues == {-2, 1}

\* ---------------------------------------------------------------- actions

\* GaussianNoiseGenerator.__init__, run without interruption.
NewGaussianNoiseGenerator(mean, variance) ==
    /\ Len(generators) < MaxGenerators
    /\ LET seed == last_allocated_seed(seed_list)
       IN  /\ seed_list' = Append(seed_list, seed + seed_increment_per_generator)
           /\ generators' = Append(generators,
                                   [base_seed |-> seed, mean |-> mean, variance |-> variance])
    /\ op' = [name |-> "GaussianNoiseGenerator", self |-> Len(generators) + 1,
              args |-> <<mean, variance>>]
    /\ ret' = <<>>
    /\ err' = ""
    /\ UNCHANGED <<signals, probe, pc, this_seed, seeds, draws, mutations>>

\* g.generate(r, n, t); keep tells whether the call is the one kept in probe.
Generate(g, r, n, t, keep) ==
    /\ LET res == generate(g, r, n, t)
           call == [name |-> "generate", self |-> g, args |-> <<r, n, t>>]
       IN  /\ op' = call
           /\ ret' = res.value
           /\ err' = res.err
           /\ probe' = IF keep
                       THEN <<[op |-> call, ret |-> res.value, err |-> res.err,
                               instances |-> Len(generators)]>>
                       ELSE probe
    /\ UNCHANGED <<seed_list, generators, signals, pc, this_seed, seeds, draws, mutations>>

InitHeap ==
    /\ seed_list = <<0>>
    /\ generators = <<>>
    /\ signals = <<>>
    /\ op = NoOp
    /\ ret = <<>>
    /\ err = ""
    /\ probe = <<>>
    /\ pc = [t \in 1..MaxThreads |-> "idle"]
    /\ this_seed = [t \in 1..MaxThreads |-> 0]
    /\ seeds = <<>>
    /\ draws = <<>>
    /\ mutations = 0

NextNoise ==
    \/ \E p \in GaussianParams : NewGaussianNoiseGenerator(p[1], p[2])
    \/ \E g \in DOMAIN generators, r \in Rates, n \in 1..MaxCount, t \in TimeOffsets,
          keep \in (IF probe = <<>> THEN BOOLEAN ELSE {FALSE}) : Generate(g, r, n, t, keep)

SpecNoise == InitHeap /\ [][NextNoise]_vars

\* TransformedAnalogSignal(analog_signal)
NewTransformedAnalogSignal(analog_signal) ==
    /\ Len(signals) < MaxSignals
    /\ LET res == TransformedAnalogSignal_init(analog_signal)
       IN  /\ signals' = IF res.err = "" THEN Append(signals, res.obj) ELSE signals
           /\ ret' = IF res.err = "" THEN <<Len(signals) + 1>> ELSE <<>>
           /\ err' = res.err
    /\ op' = [name |-> "TransformedAnalogSignal", self |-> Len(signals) + 1,
              args |-> <<analog_signal>>]
    /\ UNCHANGED <<seed_list, generators, probe, pc, this_seed, seeds, draws, mutations>>

\* CompoundAnalogSignal(sigs): the compound is allocated first, its components
\* follow it in the heap, which holds at most room instances.
NewCompoundAnalogSignal(sigs, room) ==
    LET res == compound_components(sigs)
        self == Len(signals) + 1
        compound == [NewObject("CompoundAnalogSignal") EXCEPT
                        !.attrs = {"_components"},
                        !.components = component_refs(self, sigs, res.objs)]
    IN  /\ self <= room
        /\ self + Len(res.objs) <= room
        /\ signals' = IF res.err = "" THEN (signals \o <<compound>>) \o res.objs ELSE signals
        /\ ret' = IF res.err = "" THEN <<self>> ELSE <<>>
        /\ err' = res.err
        /\ op' = [name |-> "CompoundAnalogSignal", self |-> self, args |-> sigs]
        /\ UNCHANGED <<seed_list, generators, probe, pc, this_seed, seeds, draws, mutations>>

\* signals[self].<name>(x), for the four mutators.
Mutate(self, name, x) ==
    /\ signals[self].cls \in {"TransformedAnalogSignal", "CompoundAnalogSignal"}
    /\ mutations < MaxMutations
    /\ LET res == call_mutator(self, name, x)
       IN  /\ signals' = res.heap
           /\ err' = res.err
    /\ mutations' = mutations + 1
    /\ op' = [name |-> name, self |-> self, args |-> <<x>>]
    /\ ret' = <<>>
    /\ UNCHANGED <<seed_list, generators, probe, pc, this_seed, seeds, draws>>

ApplyDelay(self, d) == Mutate(self, "apply_delay", d)
ApplyGain(self, g) == Mutate(self, "apply_gain", g)
ApplyFrequencyMagnitudeSlope(self, m) == Mutate(self, "apply_frequency_magnitude_slope", m)
ApplyFrequencyPhaseSlope(self, p) == Mutate(self, "apply_frequency_phase_slope", p)

\* Lists of at most k values of S.
ListsOf(S, k) == UNION {[1..n -> S] : n \in 0..k}

SignalRefs == {SignalRef(i) : i \in DOMAIN signals}

\* Two generators constructed one after the other, and an AnalogSignal on each.
InitSignals ==
    /\ seed_list = <<0, seed_increment_per_generator, 2 * seed_increment_per_generator>>
    /\ generators = <<[base_seed |-> 0, mean |-> 1, variance |-> 4],
                      [base_seed |-> seed_increment_per_generator, mean |-> 1, variance |-> 4]>>
    /\ signals = <<AnalogSignal_init(NewObject("AnalogSignal"), 1),
                   AnalogSignal_init(NewObject("AnalogSignal"), 2)>>
    /\ op = NoOp
    /\ ret = <<>>
    /\ err = ""
    /\ probe = <<>>
    /\ pc = [t \in 1..MaxThreads |-> "idle"]
    /\ this_seed = [t \in 1..MaxThreads |-> 0]
    /\ seeds = <<>>
    /\ draws = <<>>
    /\ mutations = 0

Next ==
    \/ \E v \in SignalRefs \cup NonSignals : NewTransformedAnalogSignal(v)
    \/ /\ Len(signals) < MaxSignals
       /\ \E l \in ListsOf(SignalRefs, MaxList) : NewCompoundAnalogSignal(l, MaxSignals)
    \/ \E s \in DOMAIN signals, d \in DelayArgs : ApplyDelay(s, d)
    \/ \E s \in DOMAIN signals, g \in GainArgs : ApplyGain(s, g)
    \/ \E s \in DOMAIN signals, m \in MagnitudeSlopeArgs : ApplyFrequencyMagnitudeSlope(s, m)
    \/ \E s \in DOMAIN signals, p \in PhaseSlopeArgs : ApplyFrequencyPhaseSlope(s, p)

Spec == InitSignals /\ [][Next]_vars

\* The heap with room for one more compound of two components.
MaxHeap == MaxSignals + 3

NextCompound ==
    \/ /\ Len(signals) < MaxHeap
       /\ \E l \in ListsOf(SignalRefs, MaxList) : NewCompoundAnalogSignal(l, MaxHeap)
    \/ \E s \in DOMAIN signals, d \in DelayArgs \ {None} : ApplyDelay(s, d)

SpecCompound == InitSignals /\ [][NextCompound]_vars

\* signals[self].sample(r, n, t)
Sample(self, r, n, t) ==
    /\ LET res == sample(self, r, n, t)
       IN  /\ ret' = res.value
           /\ err' = res.err
    /\ op' = [name |-> "sample", self |-> self, args |-> <<r, n, t>>]
    /\ UNCHANGED <<seed_list, generators, signals, probe, pc, this_seed, seeds, draws, mutations>>

\* The state after
\*   s1 = AnalogSignal(ConstantGenerator(a)); s2 = AnalogSignal(ConstantGenerator(b))
\*   s3 = AnalogSignal(SinusoidGenerator(1, 1, 0))
\*   s4 = TransformedAnalogSignal(s3)
\*   s5 = CompoundAnalogSignal([]); s6 = CompoundAnalogSignal([s1, s2])
\* with the components of s6 at 7 and 8.
InitSample ==
    /\ seed_list = <<0, seed_increment_per_generator>>
    /\ generators = <<ConstantGenerator(AmplitudeA), ConstantGenerator(AmplitudeB),
                      SinusoidGenerator(1, 1, 0)>>
    /\ signals = <<AnalogSignal_init(NewObject("AnalogSignal"), 1),
                   AnalogSignal_init(NewObject("AnalogSignal"), 2),
                   AnalogSignal_init(NewObject("AnalogSignal"), 3),
                   AnalogSignal_init(reset_transform(NewObject("TransformedAnalogSignal")), 3),
                   [NewObject("CompoundAnalogSignal") EXCEPT
                       !.attrs = {"_components"}, !.components = <<>>],
                   [NewObject("CompoundAnalogSignal") EXCEPT
                       !.attrs = {"_components"}, !.components = component_refs(6, <<>>, <<1, 2>>)],
                   AnalogSignal_init(reset_transform(NewObject("TransformedAnalogSignal")), 1),
                   AnalogSignal_init(reset_transform(NewObject("TransformedAnalogSignal")), 2)>>
    /\ op = NoOp
    /\ ret = <<>>
    /\ err = ""
    /\ probe = <<>>
    /\ pc = [t \in 1..MaxThreads |-> "idle"]
    /\ this_seed = [t \in 1..MaxThreads |-> 0]
    /\ seeds = <<>>
    /\ draws = <<>>
    /\ mutations = 0

NextSample ==
    \/ \E s \in DOMAIN signals, d \in SampleDelays : ApplyDelay(s, d)
    \/ \E s \in DOMAIN signals, g \in SampleGains : ApplyGain(s, g)
    \/ \E s \in DOMAIN signals, m \in SampleSlopes : ApplyFrequencyMagnitudeSlope(s, m)
    \/ \E s \in DOMAIN signals, r \in Rates, n \in 1..MaxCount, t \in SampleTimes :
          Sample(s, r, n, t)

SpecSample == InitSample /\ [][NextSample]_vars

\* a = TransformedAnalogSignal(s); b = TransformedAnalogSignal(s);
\* c = TransformedAnalogSignal(s); a.apply_delay(d1); a.apply_delay(d2);
\* b.apply_delay(d2); b.apply_delay(d1); c.apply_delay(d1 + d2), and then
\* sample(r, n, t) of each: the three instances and their samples. The
\* instances are dropped after the comparison.
DelayTwiceAndOnce(s, d1, d2, r, n, t) ==
    /\ signals[s].cls = "TransformedAnalogSignal"
    /\ LET copy == TransformedAnalogSignal_init(SignalRef(s)).obj
           a == apply_delay(apply_delay(copy, <<d1>>).obj, <<d2>>).obj
           b == apply_delay(apply_delay(copy, <<d2>>).obj, <<d1>>).obj
           c == apply_delay(copy, <<d1 + d2>>).obj
       IN  draws' = <<[state |-> a, samples |-> sample_transformed(a, r, n, t)],
                      [state |-> b, samples |-> sample_transformed(b, r, n, t)],
                      [state |-> c, samples |-> sample_transformed(c, r, n, t)]>>
    /\ op' = [name |-> "apply_delay twice and once", self |-> s, args |-> <<d1, d2, r, n, t>>]
    /\ ret' = <<>>
    /\ err' = ""
    /\ UNCHANGED <<seed_list, generators, signals, probe, pc, this_seed, seeds, mutations>>

NextDelay ==
    \/ \E s \in DOMAIN signals, d \in SampleDelays : ApplyDelay(s, d)
    \/ \E s \in DOMAIN signals, g \in SampleGains : ApplyGain(s, g)
    \/ \E s \in DOMAIN signals, m \in SampleSlopes : ApplyFrequencyMagnitudeSlope(s, m)
    \/ \E s \in DOMAIN signals, d1 \in DelayValues, d2 \in DelayValues, r \in Rates,
          t \in SampleTimes : DelayTwiceAndOnce(s, d1, d2, r, MaxCount, t)

SpecDelay == InitSample /\ [][NextDelay]_vars

\* The pure functions _seed_window_to_random_state and _draw_samples, applied
\* to inputs drawn from bounded sets.

\* Windows within 2^SeedBits windows of index 0, on either side.
Windows == (-Pow2(SeedBits))..(Pow2(SeedBits) - 1)
Indices == (-MaxIndex)..MaxIndex

SeedWindows(ga, wa, gb, wb) ==
    /\ seeds' = <<[self |-> ga, window |-> wa, seed |-> seed_window_to_random_state(ga, wa).seed],
                  [self |-> gb, window |-> wb, seed |-> seed_window_to_random_state(gb, wb).seed]>>
    /\ op' = [name |-> "_seed_window_to_random_state", self |-> ga, args |-> <<wa, gb, wb>>]
    /\ ret' = <<>>
    /\ err' = ""
    /\ UNCHANGED <<seed_list, generators, signals, probe, pc, this_seed, draws, mutations>>

NextSeed ==
    \/ \E p \in GaussianParams : NewGaussianNoiseGenerator(p[1], p[2])
    \/ \E ga \in DOMAIN generators, gb \in DOMAIN generators, wa \in Windows, wb \in Windows :
          SeedWindows(ga, wa, gb, wb)

SpecSeed == InitHeap /\ [][NextSeed]_vars

\* The ranges [a, b], [b+1, c] and [a, c] drawn from generator g.
DrawSplit(g, a, b, c) ==
    /\ draws' = <<draw_samples(g, <<a, b>>), draw_samples(g, <<b + 1, c>>),
                  draw_samples(g, <<a, c>>)>>
    /\ op' = [name |-> "_draw_samples", self |-> g, args |-> <<a, b, c>>]
    /\ ret' = <<>>
    /\ err' = ""
    /\ UNCHANGED <<seed_list, generators, signals, probe, pc, this_seed, seeds, mutations>>

NextDraw ==
    \/ \E p \in GaussianParams : NewGaussianNoiseGenerator(p[1], p[2])
    \/ \E g \in DOMAIN generators, a \in Indices, b \in Indices, c \in Indices :
          a <= b /\ b < c /\ DrawSplit(g, a, b, c)

SpecDraw == InitHeap /\ [][NextDraw]_vars

\* GaussianNoiseGenerator.__init__ run by several threads: each statement is
\* one step, and the steps of different threads interleave.
Threads == 1..MaxThreads

InFlight == Cardinality({t \in Threads : pc[t] # "idle"})

\* this_seed = self._seed_list[-1]
ReadSeed(t) ==
    /\ pc[t] = "idle"
    /\ Len(generators) + InFlight < MaxGenerators + MaxThreads
    /\ this_seed' = [this_seed EXCEPT ![t] = last_allocated_seed(seed_list)]
    /\ pc' = [pc EXCEPT ![t] = "read"]
    /\ op' = [name |-> "GaussianNoiseGenerator", self |-> 0, args |-> <<t>>]
    /\ UNCHANGED <<seed_list, generators, signals, ret, err, probe, seeds, draws, mutations>>

\* self._seed_list.append(this_seed + self._seed_increment_per_generator)
AppendSeed(t) ==
    /\ pc[t] = "read"
    /\ seed_list' = Append(seed_list, this_seed[t] + seed_increment_per_generator)
    /\ pc' = [pc EXCEPT ![t] = "appended"]
    /\ op' = [name |-> "GaussianNoiseGenerator", self |-> 0, args |-> <<t>>]
    /\ UNCHANGED <<generators, signals, ret, err, probe, this_seed, seeds, draws, mutations>>

\* self._base_seed = this_seed; self._mean = mean; self._variance = variance
AssignSeed(t, mean, variance) ==
    /\ pc[t] = "appended"
    /\ generators' = Append(generators, [base_seed |-> this_seed[t], mean |-> mean,
                                         variance |-> variance])
    /\ pc' = [pc EXCEPT ![t] = "idle"]
    /\ op' = [name |-> "GaussianNoiseGenerator", self |-> Len(generators) + 1, args |-> <<t>>]
    /\ UNCHANGED <<seed_list, signals, ret, err, probe, this_seed, seeds, draws, mutations>>

NextThreads ==
    \/ \E t \in Threads : ReadSeed(t)
    \/ \E t \in Threads : AppendSeed(t)
    \/ \E t \in Threads, p \in GaussianParams : AssignSeed(t, p[1], p[2])

SpecThreads == InitHeap /\ [][NextThreads]_vars

\* ---------------------------------------------------------------- claims

\* Whether t lies on the 1/r grid.
OnGrid(r, t) == (t[1] * r) % t[2] = 0

\* The draw that sample index i of generator g stands for: window
\* floor(i / samples_per_seed), draw number i mod samples_per_seed.
DrawAtIndex(g, i) ==
    [seed |-> seed_of_window(g, i \div samples_per_seed), pos |-> i % samples_per_seed]

C3_ConcurrentSeedsUnique ==
    (\A t \in Threads : pc[t] = "idle") =>
        /\ Len(seed_list) = Len(generators) + 1
        /\ \A i \in 1..(Len(seed_list) - 1) :
               seed_list[i + 1] = seed_list[i] + seed_increment_per_generator
        /\ \A i \in DOMAIN generators, j \in DOMAIN generators :
               i # j => generators[i].base_seed # generators[j].base_seed

C5_WindowBoundaryContinuity ==
    op.name = "_draw_samples" => draws[1] \o draws[2] = draws[3]

\* C5 witness: a range from negative to non-negative indices over at least
\* three windows, split inside a window, with the two parts equal to the whole.
C5_Witness ==
    /\ op.name = "_draw_samples"
    /\ op.args[1] < -samples_per_seed
    /\ op.args[3] >= samples_per_seed
    /\ op.args[2] % samples_per_seed = 0
    /\ Len(draws[3]) = op.args[3] - op.args[1] + 1
    /\ draws[1] \o draws[2] = draws[3]

TransformOf(s) ==
    <<s.time_delay, s.flat_gain, s.frequency_magnitude_slope, s.frequency_phase_slope>>

MutatorNames == {"apply_delay", "apply_gain", "apply_frequency_magnitude_slope",
                 "apply_frequency_phase_slope"}

\* C7: a TransformedAnalogSignal constructed from a TransformedAnalogSignal
\* has the source's four transform fields, one constructed from a plain
\* AnalogSignal has delay 0, gain 1 and no slopes; either way it has the
\* source's generator and the construction changes no existing signal.
C7_ConstructCopiesOrResets ==
    [][(op'.name = "TransformedAnalogSignal" /\ err' = "") =>
          LET src == signals[op'.args[1].ref]
              new == signals'[ret'[1]]
          IN  /\ ret'[1] = Len(signals) + 1
              /\ new.cls = "TransformedAnalogSignal"
              /\ new.generator = src.generator
              /\ src.cls = "TransformedAnalogSignal" => TransformOf(new) = TransformOf(src)
              /\ src.cls = "AnalogSignal" => TransformOf(new) = <<0, 1, None, None>>
              /\ SubSeq(signals', 1, Len(signals)) = signals]_vars

\* C7 witness: a TransformedAnalogSignal was constructed from one whose delay
\* and magnitude slope had been changed, and holds the same transform state.
C7_Witness ==
    /\ op.name = "TransformedAnalogSignal"
    /\ err = ""
    /\ signals[op.args[1].ref].cls = "TransformedAnalogSignal"
    /\ signals[op.args[1].ref].time_delay # 0
    /\ signals[op.args[1].ref].frequency_magnitude_slope # None
    /\ signals[op.args[1].ref].generator = 2
    /\ TransformOf(signals[ret[1]]) = TransformOf(signals[op.args[1].ref])

\* C8: TransformedAnalogSignal(x) raises ValueError when x is no AnalogSignal
\* and raises nothing when x is an AnalogSignal of any class.
C8_ConstructAcceptsAnalogSignals ==
    op.name = "TransformedAnalogSignal" =>
        IF isinstance(op.args[1], "AnalogSignal") THEN err = "" ELSE err = "ValueError"

\* C9: a mutator called with None raises nothing and changes no signal.
C9_NoneArgumentIsNoOp ==
    [][(op'.name \in MutatorNames /\ op'.args[1] = None) =>
          (err' = "" /\ signals' = signals)]_vars

RECURSIVE ComponentCount(_)
ComponentCount(sigs) ==
    IF sigs = <<>> THEN 0
    ELSE (IF signals[Head(sigs).ref].cls = "CompoundAnalogSignal"
          THEN Len(signals[Head(sigs).ref].components)
          ELSE 1) + ComponentCount(Tail(sigs))

\* C10: the components of a constructed CompoundAnalogSignal are no compounds,
\* there are as many as the non-compound elements of the list plus the
\* components of its compound elements, and they stand in list order, each
\* compound element replaced in place by its components.
C10_Flattening ==
    op.name = "CompoundAnalogSignal" =>
        /\ err = ""
        /\ LET components == signals[ret[1]].components
               sources == Flattened(op.args)
           IN  /\ Len(components) = ComponentCount(op.args)
               /\ Len(components) = Len(sources)
               /\ \A k \in DOMAIN components :
                     /\ signals[components[k]].cls = "TransformedAnalogSignal"
                     /\ signals[components[k]].generator = signals[sources[k]].generator
                     /\ signals[sources[k]].cls = "TransformedAnalogSignal" =>
                           TransformOf(signals[components[k]]) = TransformOf(signals[sources[k]])

\* C10 witness: a compound was constructed from a compound with a delayed
\* component followed by a plain signal on another generator.
C10_Witness ==
    /\ op.name = "CompoundAnalogSignal"
    /\ err = ""
    /\ Len(op.args) = 2
    /\ signals[op.args[1].ref].cls = "CompoundAnalogSignal"
    /\ Len(signals[op.args[1].ref].components) >= 1
    /\ signals[op.args[2].ref].cls = "AnalogSignal"
    /\ Len(signals[ret[1]].components) = Len(signals[op.args[1].ref].components) + 1
    /\ signals[signals[ret[1]].components[1]].time_delay # 0
    /\ signals[signals[ret[1]].components[1]].generator
          # signals[signals[ret[1]].components[Len(signals[ret[1]].components)]].generator

Components(c) == {signals[c].components[k] : k \in DOMAIN signals[c].components}

\* C11: the components of a constructed CompoundAnalogSignal are instances of
\* their own, none of them a signal that existed before, and the construction
\* changes no existing signal; a mutator called on a compound changes nothing
\* but those components, and a mutator called on any other signal changes
\* nothing but that signal.
C11_ComponentsAreCopies ==
    [][/\ (op'.name = "CompoundAnalogSignal" /\ err' = "") =>
             /\ SubSeq(signals', 1, Len(signals)) = signals
             /\ \A k \in DOMAIN signals'[ret'[1]].components :
                   signals'[ret'[1]].components[k] > Len(signals)
       /\ op'.name \in MutatorNames =>
             /\ Len(signals') = Len(signals)
             /\ \A i \in DOMAIN signals :
                   signals'[i] # signals[i] =>
                      IF signals[op'.self].cls = "CompoundAnalogSignal"
                      THEN i \in Components(op'.self) /\ i > op'.self
                      ELSE i = op'.self]_vars

\* C11 witness: a compound built from another compound was delayed; its
\* component carries the delay and the component it was copied from, in the
\* nested compound, does not.
C11_Witness ==
    /\ op.name = "apply_delay"
    /\ err = ""
    /\ signals[op.self].cls = "CompoundAnalogSignal"
    /\ Len(signals[op.self].components) >= 1
    /\ signals[signals[op.self].components[1]].time_delay # 0
    /\ \E c \in 1..(op.self - 1) :
          /\ signals[c].cls = "CompoundAnalogSignal"
          /\ Len(signals[c].components) >= 1
          /\ signals[signals[c].components[1]].time_delay = 0
          /\ signals[signals[c].components[1]].generator
                = signals[signals[op.self].components[1]].generator

\* The constant c as a sample.
ConstantSample(c) == IF c = 0 THEN EmptyBag ELSE Unit :> c

\* Sample number i of the sum of the samples of the given components.
RECURSIVE ComponentSum(_, _, _, _, _)
ComponentSum(components, r, n, t, i) ==
    IF components = <<>> THEN EmptyBag
    ELSE Plus(TransformedAnalogSignal_sample(Head(components), r, n, t).value[i],
              ComponentSum(Tail(components), r, n, t, i))

\* C12: sample(r, n, t) of a CompoundAnalogSignal returns n samples, each the
\* sum of the components' samples at that position: zeros when there are no
\* components, and g*(a+b) for the compound of the constants a and b whose
\* components have gain g and no slopes (g = 1 when no gain was applied).
C12_CompoundSuperposition ==
    (op.name = "sample" /\ signals[op.self].cls = "CompoundAnalogSignal") =>
        LET r == op.args[1]
            n == op.args[2]
            t == op.args[3]
            components == signals[op.self].components
        IN  /\ err = ""
            /\ Len(ret) = n
            /\ \A i \in 1..n : ret[i] = ComponentSum(components, r, n, t, i)
            /\ components = <<>> => \A i \in 1..n : ret[i] = EmptyBag
            /\ (/\ Len(components) = 2
                /\ generators[signals[components[1]].generator] = ConstantGenerator(AmplitudeA)
                /\ generators[signals[components[2]].generator] = ConstantGenerator(AmplitudeB)
                /\ signals[components[1]].flat_gain = signals[components[2]].flat_gain
                /\ \A k \in 1..2 :
                      /\ signals[components[k]].frequency_magnitude_slope = None
                      /\ signals[components[k]].frequency_phase_slope = None)
               => \A i \in 1..n :
                     ret[i] = ConstantSample(signals[components[1]].flat_gain
                                             * (AmplitudeA + AmplitudeB))

\* C12 witness: the compound of the constants a and b was sampled after
\* apply_gain(2) on it and returned MaxCount samples of 2*(a+b).
C12_Witness ==
    /\ op.name = "sample"
    /\ op.self = 6
    /\ op.args[2] = MaxCount
    /\ signals[7].flat_gain = 2
    /\ signals[8].flat_gain = 2
    /\ signals[7].time_delay = 0
    /\ Len(ret) = MaxCount
    /\ \A i \in 1..MaxCount : ret[i] = Unit :> 2 * (AmplitudeA + AmplitudeB)

AddressedDraw(base, w, i) ==
    [seed |-> IF i >= 0 THEN base + 2 * (i \div w) ELSE base + 1 + 2 * ((-i - 1) \div w),
     pos |-> i % w]

\* Whether drawn holds, for every index i of lo..hi, the draw addressed by i at
\* position i - lo, and nothing else.
AddressedRange(drawn, base, lo, hi) ==
    /\ Len(drawn) = hi - lo + 1
    /\ \A i \in lo..hi : drawn[i - lo + 1] = AddressedDraw(base, Pow2(WindowBits), i)

\* C15: the samples drawn for [s_min, s_max] are s_max - s_min + 1 values, the
\* one at position i - s_min being draw (i mod W) of the stream seeded with
\* base_seed + 2k, k = floor(i / W), for i >= 0, and with base_seed + 1 + 2k,
\* k = floor((-i - 1) / W), for i < 0; for ranges within one window and over
\* several.
C15_WindowAddressing ==
    op.name = "_draw_samples" =>
        LET base == generators[op.self].base_seed
            a == op.args[1]
            b == op.args[2]
            c == op.args[3]
        IN  /\ AddressedRange(draws[1], base, a, b)
            /\ AddressedRange(draws[2], base, b + 1, c)
            /\ AddressedRange(draws[3], base, a, c)

\* C15 witness: the second instance drew a range from the second negative
\* window to the second non-negative one, and a range inside one negative
\* window.
C15_Witness ==
    /\ op.name = "_draw_samples"
    /\ op.self = 2
    /\ generators[2].base_seed = Pow2(SeedBits) - 1
    /\ op.args[1] = -Pow2(WindowBits) - 1
    /\ op.args[2] = op.args[1]
    /\ op.args[3] = Pow2(WindowBits)
    /\ Len(draws[1]) = 1
    /\ draws[1][1] = [seed |-> Pow2(SeedBits) + 2, pos |-> Pow2(WindowBits) - 1]
    /\ draws[3][Len(draws[3])] = [seed |-> Pow2(SeedBits) + 1, pos |-> 0]
    /\ Len(draws[3]) = 2 * Pow2(WindowBits) + 2

\* The signals a mutator called on signals[self] is applied to.
Targets(self) ==
    IF signals[self].cls = "CompoundAnalogSignal" THEN Components(self) ELSE {self}

\* C16: apply_frequency_phase_slope(p) sets an unset phase slope to p and a
\* phase slope q to q*p; apply_frequency_magnitude_slope(m) sets an unset
\* magnitude slope to m and a magnitude slope q to q+m; each leaves the other
\* three transform fields as they were.
C16_SlopeComposition ==
    [][/\ (op'.name = "apply_frequency_phase_slope" /\ op'.args[1] # None) =>
             /\ err' = ""
             /\ \A i \in Targets(op'.self) :
                   /\ signals'[i].frequency_phase_slope =
                         IF signals[i].frequency_phase_slope = None
                         THEN op'.args[1]
                         ELSE <<signals[i].frequency_phase_slope[1] * op'.args[1][1]>>
                   /\ signals'[i].time_delay = signals[i].time_delay
                   /\ signals'[i].flat_gain = signals[i].flat_gain
                   /\ signals'[i].frequency_magnitude_slope = signals[i].frequency_magnitude_slope
       /\ (op'.name = "apply_frequency_magnitude_slope" /\ op'.args[1] # None) =>
             /\ err' = ""
             /\ \A i \in Targets(op'.self) :
                   /\ signals'[i].frequency_magnitude_slope =
                         IF signals[i].frequency_magnitude_slope = None
                         THEN op'.args[1]
                         ELSE <<signals[i].frequency_magnitude_slope[1] + op'.args[1][1]>>
                   /\ signals'[i].time_delay = signals[i].time_delay
                   /\ signals'[i].flat_gain = signals[i].flat_gain
                   /\ signals'[i].frequency_phase_slope = signals[i].frequency_phase_slope]_vars

\* C16 witness: a second apply_frequency_phase_slope(3) left the product 3*3.
C16_Witness ==
    /\ op.name = "apply_frequency_phase_slope"
    /\ op.args[1] = <<3>>
    /\ err = ""
    /\ signals[op.self].cls = "TransformedAnalogSignal"
    /\ signals[op.self].frequency_phase_slope = <<3 * 3>>
    /\ signals[op.self].frequency_magnitude_slope = None

====
